---------------------------- MODULE Spec2Model ----------------------------
(***************************************************************************)
(* A model of foamstream's streaming engine (src/foamstream/streamer.py): *)
(* the Streamer facade run by one producer thread, the bounded queue      *)
(* `_buffer`, and the sending loop `_run` executed by the worker thread.  *)
(***************************************************************************)
EXTENDS Integers, Sequences, FiniteSets, TLC

(***************************************************************************)
(* Bounds of the model.                                                    *)
(***************************************************************************)
\* number of feed() and reset_counter() calls the producer issues
MaxCalls == 3
\* largest buffer_size passed to the constructor
MaxBuffer == 2
\* number of feed() calls of the producer that feeds a paced Streamer
MaxPacedFeeds == 4
MaxRange == 12
MaxFrames == 3
MaxSends == 13
MaxRestarts == 2
MaxFeedErrors == 2
MaxNext == 6
MaxPerFile == 4
MaxEvents == 12
\* number of requests REQ peers send to a REP streamer
MaxRequests == 2
\* the monotonic clock is followed up to this reading (seconds)
MaxTime == 1

(***************************************************************************)
(* Values.                                                                 *)
(***************************************************************************)
\* streamer.py:20  _reset_counter_sentinel = object()
\* A queue entry is the sentinel or a datum.  A datum is the application
\* object number `id` after `ser` applications of the serializer (0: the
\* object itself as passed to feed()); `eqall` says whether the object's
\* __eq__ answers True to every comparison.  `ord`, `epoch` and `by` are
\* history the program does not hold: the position of the entry in the
\* order of enqueueing; for a sentinel, the number of feed() calls issued
\* between the reset_counter() call before it and the one that made it, and
\* for a datum, the number of reset_counter() calls issued before its
\* feed(); and which call made a sentinel ("start" or "reset_counter").
_reset_counter_sentinel ==
    [tag |-> "sentinel", id |-> 0, eqall |-> FALSE, ser |-> 0,
     ord |-> 0, epoch |-> 0, by |-> ""]

NoData ==
    [tag |-> "none", id |-> 0, eqall |-> FALSE, ser |-> 0,
     ord |-> 0, epoch |-> 0, by |-> ""]

\* the k-th object handed to feed()
Record(k, eq) ==
    [tag |-> "data", id |-> k, eqall |-> eq, ser |-> 0,
     ord |-> 0, epoch |-> 0, by |-> "feed"]

\* object identity (Python's `is`)
PyIs(data, other) ==
    data.tag = other.tag /\ data.id = other.id /\ data.ser = other.ser

\* streamer.py:204  data == _reset_counter_sentinel
\* Python evaluates type(data).__eq__(data, sentinel) first: it is True for
\* the sentinel itself (object.__eq__ is identity) and for an object whose
\* __eq__ answers True to everything; serialized payloads (bytes, tuples)
\* compare unequal to the sentinel.
PyEq(data, other) ==
    \/ PyIs(data, other)
    \/ data.tag = "data" /\ data.ser = 0 /\ data.eqall

\* the serializer self._pack (streamer.py:83-87): one more application
_pack(data) == [data EXCEPT !.ser = @ + 1, !.eqall = FALSE]

\* str.upper() / str.lower() on the argument strings the model passes
Upper(s) ==
    CASE s = "push" -> "PUSH"
      [] s = "Pub"  -> "PUB"
      [] s = "rEP"  -> "REP"
      [] s = "pull" -> "PULL"
      [] OTHER      -> s

Lower(s) ==
    CASE s = "TCP" -> "tcp"
      [] s = "iPc" -> "ipc"
      [] s = "UDP" -> "udp"
      [] OTHER     -> s


\* sys.getsizeof of one bytes object: the object header plus its length
\* (the serialized object number k is k bytes long)
GetSizeOf(item) == 33 + item.id

\* The number of frames socket.send() is called with for one payload
\* (streamer.py:159-169).  With multipart the payload is a sequence: the
\* payload of object number k has k items, and the serializer "empty" (a
\* callable that returns an empty sequence) gives none.
NumItems(payload, multipart, serializer) ==
    IF multipart THEN (IF serializer = "empty" THEN 0 ELSE payload.id)
    ELSE 1

(***************************************************************************)
(* Constructor arguments.                                                  *)
(***************************************************************************)
\* streamer.py:27-42, the defaults; buffer_size (10) and report_every (100)
\* are passed explicitly by the model, with small values
DefaultArgs ==
    [sock |-> "PUSH", protocol |-> "tcp", serializer |-> "avro",
     multipart |-> FALSE, early_serialization |-> FALSE,
     buffer_size |-> MaxBuffer, buffer_linger |-> -1,
     frequency |-> -1, report_every |-> 2, request |-> "READY"]

SockArgs == {"PUSH", "Pub", "rEP"}
BadSockArgs == {"PULL", "pull"}
ProtocolArgs == {"tcp", "iPc"}
BadProtocolArgs == {"udp", "UDP"}
SerializerArgs == {"avro", "callable"}
\* the serializer arguments that are callables (streamer.py:83)
CallableArgs == {"callable", "empty"}

\* The configurations the model constructs a Streamer with: the role (PUSH
\* or REP), the serialization mode and the buffer size vary together; every
\* other argument varies around the defaults.
CtorArgs ==
    {[DefaultArgs EXCEPT !.sock = s, !.early_serialization = e,
                         !.buffer_size = b] :
        s \in {"PUSH", "rEP"}, e \in BOOLEAN, b \in 1..MaxBuffer}
    \cup {[DefaultArgs EXCEPT !.sock = s] : s \in SockArgs}
    \cup {[DefaultArgs EXCEPT !.sock = s, !.multipart = TRUE,
                              !.serializer = z] :
        s \in SockArgs, z \in SerializerArgs}
    \cup {[DefaultArgs EXCEPT !.multipart = TRUE, !.serializer = "empty"]}
    \cup {[DefaultArgs EXCEPT !.sock = s] : s \in BadSockArgs}
    \cup {[DefaultArgs EXCEPT !.protocol = p] :
        p \in ProtocolArgs \cup BadProtocolArgs}
    \cup {[DefaultArgs EXCEPT !.buffer_linger = l] : l \in {0, 1000}}
    \cup {[DefaultArgs EXCEPT !.buffer_size = 0]}
    \cup {[DefaultArgs EXCEPT !.frequency = 1, !.sock = s] : s \in {"PUSH", "rEP"}}
    \cup {[DefaultArgs EXCEPT !.report_every = n] : n \in {0, 1}}

NoConfig ==
    [sock |-> "", protocol |-> "", serializer |-> "", multipart |-> FALSE,
     early_serialization |-> FALSE, buffer_size |-> 0, buffer_linger |-> 0,
     frequency |-> 0, report_every |-> 0, request |-> ""]

(***************************************************************************)
(* tomo/app.py: gen_index, the generator of frame indices.                 *)
(***************************************************************************)
\* len(prob): the deque is sampled only when it holds this many indices
ProbLen == 10

\* StopIteration
Stop == -1

GenStarts == {0, 2}

\* the generator object: the arguments, the loop variable i, the deque q
\* (its order is lost in the shuffle and ignored by the choice, so it is a
\* set) and whether the for loop over the range is over
NewGen(start, end, ordered) ==
    [ordered |-> ordered, start |-> start, end |-> end, i |-> start,
     q |-> {}, shuffled |-> FALSE]

\* mutant: the index that arrives when the deque is full is not appended
RECURSIVE GenIndexNext_Dropping(_)
GenIndexNext_Dropping(g) ==
    IF g.ordered
    THEN IF g.i < g.end
         THEN {[g |-> [g EXCEPT !.i = @ + 1], y |-> g.i]}
         ELSE {[g |-> g, y |-> Stop]}
    ELSE IF ~g.shuffled
    THEN IF g.i < g.end
         THEN IF Cardinality(g.q) = ProbLen
              THEN {[g |-> [g EXCEPT !.q = @ \ {idx}, !.i = @ + 1],
                     y |-> idx] : idx \in g.q}
              ELSE GenIndexNext_Dropping(
                       [g EXCEPT !.q = @ \cup {g.i}, !.i = @ + 1])
         ELSE GenIndexNext_Dropping([g EXCEPT !.shuffled = TRUE])
    ELSE IF g.q = {}
         THEN {[g |-> g, y |-> Stop]}
         ELSE {[g |-> [g EXCEPT !.q = @ \ {idx}], y |-> idx] : idx \in g.q}

\* next(gen): the outcomes of running the generator to its next yield (y is
\* the index) or to its end (y is Stop).  np.random.choice gives every
\* element of the full deque a positive probability and np.random.shuffle
\* can leave every order, so each element can be the next.
RECURSIVE GenIndexNext(_)
GenIndexNext(g) ==
    IF g.ordered
    THEN IF g.i < g.end
         THEN {[g |-> [g EXCEPT !.i = @ + 1], y |-> g.i]}
         ELSE {[g |-> g, y |-> Stop]}
    ELSE IF ~g.shuffled
    THEN IF g.i < g.end
         THEN IF Cardinality(g.q) = ProbLen
              THEN {[g |-> [g EXCEPT !.q = (@ \ {idx}) \cup {g.i},
                                     !.i = @ + 1],
                     y |-> idx] : idx \in g.q}
              ELSE GenIndexNext([g EXCEPT !.q = @ \cup {g.i}, !.i = @ + 1])
         ELSE GenIndexNext([g EXCEPT !.shuffled = TRUE])
    ELSE IF g.q = {}
         THEN {[g |-> g, y |-> Stop]}
         ELSE {[g |-> [g EXCEPT !.q = @ \ {idx}], y |-> idx] : idx \in g.q}

NoGen ==
    [pc |-> "none", g |-> NewGen(0, 0, TRUE), seen |-> {}, twice |-> FALSE,
     n |-> 0, last |-> Stop, increasing |-> TRUE]

(***************************************************************************)
(* tomo/app.py: gen_fake_data, stream_data_file and the loop of main.      *)
(***************************************************************************)
\* gen_fake_data: the number of darks or flats, and of projections, when
\* the count asked for is 0
FakeCalibrations == 10
FakeProjections == 400

\* ds.shape[0] of the darks, flats and projections of the data file
NImages == <<2, 1, 2>>

Scans == 0 .. 2

\* an item of the stream: (sentinel, None), or (meta, data) where data is
\* the array OBJECT yielded: the raw_data/proc_data buffer of the scan in
\* stream_data_file, an array of the pre-generated pool in gen_fake_data.
\* after is the scan the sentinel closes, kept for the properties only.
SentinelItem(scan) == [tag |-> "sentinel", after |-> scan]
FrameItem(fn, scan, i) ==
    [tag |-> "frame", scan |-> scan, frame |-> i,
     data |-> IF fn = "stream_data_file" THEN "raw_data" ELSE "pool"]

\* the indices gen_index is asked for in a scan
ScanRange(fn, counts, starts, scan) ==
    IF fn = "gen_fake_data"
    THEN LET n == IF counts[scan + 1] # 0 THEN counts[scan + 1]
                  ELSE IF scan \in {0, 1} THEN FakeCalibrations
                  ELSE FakeProjections
         IN  [start |-> 0, end |-> n]
    ELSE LET start == starts[scan + 1]
             end == start + counts[scan + 1]
         IN  [start |-> start,
              end |-> IF start = end THEN start + NImages[scan + 1] ELSE end]

\* mutant: every item is fed
MainLoopCall_FeedsAll(item) == "feed"

\* main: what the loop calls for an item
MainLoopCall(item) ==
    IF item.tag = "sentinel" THEN "reset_counter" ELSE "feed"

\* the arguments of the generators.  Unordered streams are enumerated only
\* where the deque of gen_index stays within MaxFrames indices.
TomoArgs ==
    {[fn |-> fn, counts |-> <<c0, c1, c2>>, starts |-> <<0, 0, s>>,
      present |-> Scans \ missing, ordered |-> TRUE] :
        fn \in {"gen_fake_data", "stream_data_file"},
        c0 \in 0 .. MaxFrames, c1 \in 0 .. MaxFrames, c2 \in 0 .. MaxFrames,
        s \in {0, 1}, missing \in {{}, {0}, {1}, {2}}}
    \cup {[fn |-> fn, counts |-> <<c0, c1, c2>>, starts |-> <<0, 0, 0>>,
           present |-> Scans, ordered |-> FALSE] :
        fn \in {"gen_fake_data", "stream_data_file"},
        c0 \in 1 .. MaxFrames, c1 \in 1 .. MaxFrames, c2 \in 1 .. MaxFrames}

NoScans ==
    [pc |-> "none", fn |-> "", counts |-> <<0, 0, 0>>, starts |-> <<0, 0, 0>>,
     present |-> {}, ordered |-> TRUE, scan |-> 0, g |-> NewGen(0, 0, TRUE),
     raw |-> [s \in Scans |-> Stop], out |-> <<>>, calls |-> <<>>]

(***************************************************************************)
(* streamer.py:180-187: the pacer window.  A frequency is a fraction       *)
(* num / den with den > 0, so that fractional frequencies can be given.    *)
(***************************************************************************)
Max(a, b) == IF a >= b THEN a ELSE b

\* int(f) truncates towards zero
IntOf(f) ==
    IF f.num >= 0 THEN f.num \div f.den ELSE -((-f.num) \div f.den)

\* math.ceil(f)
CeilOf(f) == -((-f.num) \div f.den)

Positive(f) == f.num > 0

\* mutant: the window is as long as max(10, ceil(frequency) + 1)
WindowMaxlenOf_Ceil(f) == Max(10, CeilOf(f) + 1)

\* streamer.py:183  max(10, int(self._frequency) + 1)
WindowMaxlenOf(f) == Max(10, IntOf(f) + 1)

\* collections.deque.append with maxlen: the oldest element is dropped
DequeAppendTo(q, x, maxlen) ==
    IF Len(q) >= maxlen THEN Append(Tail(q), x) ELSE Append(q, x)

\* the frequencies a pacer is given
Frequencies ==
    {[num |-> n, den |-> 1] : n \in {-1, 0, 1, 9, 10, 11}}
    \cup {[num |-> n, den |-> 2] : n \in {-1, 1, 19, 21}}

\* t_sent of _run before the thread runs; none is TRUE when t_sent is None;
\* clock counts the readings of time.monotonic(), evictions the timestamps
\* the deque dropped
NoPacer ==
    [pc |-> "none", frequency |-> [num |-> 0, den |-> 1], none |-> TRUE,
     t_sent |-> <<>>, clock |-> 0, evictions |-> 0]

(***************************************************************************)
(* client.py: ZmqClient and the REP socket it is connected to.             *)
(***************************************************************************)
\* pickle.dumps by the peer and pickle.loads by the client (client.py:53)
Dumps(x) == [id |-> x, pickled |-> TRUE]
Loads(msg) == msg.id

\* timeout: whether RCVTIMEO was set (client.py:32-33); at_peer: requests
\* the peer has not answered; replies: messages the socket holds for recv()
NoClient ==
    [pc |-> "none", timeout |-> FALSE, recv_ready |-> FALSE,
     at_peer |-> 0, replies |-> <<>>, calls |-> 0, sent |-> 0,
     returned |-> <<>>, raised |-> FALSE, timeouts |-> 0]

(***************************************************************************)
(* writer/writer.py: Writer.                                               *)
(***************************************************************************)
\* a file created by _touch_next_file: its sequence number and the rows of
\* its datasets, max_events_per_file of them, -1 where nothing was written
NewFile(seq, m) ==
    [seq |-> seq, open |-> TRUE, rows |-> [r \in 1 .. m |-> -1]]

\* fp is the position in files of the file self._fp refers to, 0 for None
NoWriter == [pc |-> "none", max_events_per_file |-> 1, fp |-> 0, index |-> 0,
             file_count |-> 0, files |-> <<>>, events |-> 0,
             closed |-> FALSE, raised |-> FALSE]

(***************************************************************************)
(* State.                                                                  *)
(***************************************************************************)
VARIABLES
    obj,            \* "none", "constructed", or "failed" (constructor raised)
    error,          \* the exception the constructor raised, NoError if none
    cfg,            \* the attributes __init__ set from its arguments
    buffer,         \* self._buffer, a queue.Queue
    ev,             \* self._ev, the termination flag
    thread,         \* self._thread: "none", "initial" or "started"
    records_sent,   \* self._records_sent
    bytes_sent,     \* self._bytes_sent
    t0,             \* self._t0
    pc,             \* where the worker thread is in _run
    ctx,            \* the zmq context of _run: "none", "open", "destroyed"
    rep_ready,      \* local rep_ready of _run
    t_sent,         \* local t_sent of _run (<<>> also when it is None)
    data,           \* local data of _run: the entry taken from the queue
    wake,           \* end of the pacing sleep in progress
    ppc,            \* where the producer thread is
    pending,        \* the entry the producer is putting on the queue
    t_clean,        \* local t0 of __clean_up
    now,            \* time.monotonic(), in seconds
    inbox,          \* requests of REQ peers the socket has not delivered yet
    h,              \* history of the run, kept for the properties only
    gen,            \* a gen_index generator of tomo/app.py, run on its own
    scans,          \* the data generator of tomo/app.py and the loop of main
    pacer,          \* the pacer window of _run, run on its own
    client,         \* a ZmqClient of client.py and its REP peer
    writer          \* a Writer of writer/writer.py and the files it made

vars ==
    <<obj, error, cfg, buffer, ev, thread, records_sent, bytes_sent, t0, pc,
      ctx, rep_ready, t_sent, data, wake, ppc, pending, t_clean, now, inbox, h,
      gen, scans, pacer, client, writer>>

streamer == <<buffer, ev, thread, records_sent, bytes_sent, t0>>
worker == <<pc, ctx, rep_ready, t_sent, data, wake>>
producer == <<ppc, pending, t_clean>>
aside == <<gen, scans, pacer, client, writer>>
streaming ==
    <<obj, error, cfg, streamer, worker, producer, now, inbox, h>>

\* the exceptions of __init__: the message and the value it names
NoError == [text |-> "", value |-> ""]

\* h.sock_arg, h.protocol_arg  the sock and protocol arguments __init__ was
\*              called with
\* h.fed        the objects feed() was called with, in order
\* h.wire       the frames handed to socket.send(), in order
\* h.reports    number of calls of _report()
\* h.send_reports   calls of _report() made by _send() since the last
\*              __reset_counter()
\* h.reset_reports  calls of _report() made by __reset_counter()
\* h.sends      number of calls of _send() that returned
\* h.sends_mark  h.sends at the last __reset_counter()
\* h.frames_mark  number of frames on the wire at the last __reset_counter()
\* h.resets     number of reset_counter() calls, start()'s included
\* h.user_resets  number of reset_counter() calls the producer made itself
\* h.fed_epoch  number of feed() calls since the last reset_counter() call
\* h.fed_before_start  number of feed() calls before start() was called
\* h.enq        number of entries put on the queue
\* h.deq        number of entries taken from the queue
\* h.done       number of entries the loop has finished processing
\* h.requests   number of requests REQ peers have sent
\* h.granted    matching requests received since the last transmission
\* h.enq_at_stop  h.enq when stop() was called (-1 before)
\* h.deq_at_flag  h.deq when stop() set the termination flag (-1 before)
\* h.t_first, h.t_last  of a paced Streamer (frequency > 0): time.monotonic()
\*              at the first and at the latest send since the last
\*              __reset_counter()
\* h.t_feed_first, h.t_feed_last  of a paced Streamer: time.monotonic() when
\*              the first feed() was called and when the latest returned
\* h.applied    number of executions of __reset_counter()
\* h.sentinels  number of sentinels the loop has processed
\* h.start_applied  whether the sentinel of start() has been processed
\* h.halt       why the thread ended with an exception: "bind" (socket.bind
\*              raised) or "request" (the assert on the request failed)
\* h.call_full, h.call_deq  during a feed(): whether the queue was full when
\*              feed() was called, and h.deq at that moment
HInit ==
    [sock_arg |-> "", protocol_arg |-> "", fed |-> <<>>, wire |-> <<>>, reports |-> 0, send_reports |-> 0,
     reset_reports |-> 0, sends |-> 0,
     sends_mark |-> 0, frames_mark |-> 0, resets |-> 0, user_resets |-> 0,
     fed_epoch |-> 0, fed_before_start |-> 0, enq |-> 0, deq |-> 0,
     done |-> 0, requests |-> 0, granted |-> 0, t_first |-> 0, t_last |-> 0,
     t_feed_first |-> 0, t_feed_last |-> 0, enq_at_stop |-> -1, deq_at_flag |-> -1,
     applied |-> 0, sentinels |-> 0, start_applied |-> FALSE,
     halt |-> "", timeout |-> "", restarts |-> 0, feed_errors |-> 0,
     error_after |-> -1, call_full |-> FALSE, call_deq |-> 0]

\* the complete messages among the frames of a wire (the last frame of a
\* message carries no SNDMORE)
Messages(wire) == SelectSeq(wire, LAMBDA f : ~f.more)

Init ==
    /\ obj = "none"
    /\ error = NoError
    /\ cfg = NoConfig
    /\ buffer = <<>>
    /\ ev = FALSE
    /\ thread = "none"
    /\ records_sent = 0
    /\ bytes_sent = 0
    /\ t0 = 0
    /\ pc = "unstarted"
    /\ ctx = "none"
    /\ rep_ready = FALSE
    /\ t_sent = <<>>
    /\ data = NoData
    /\ wake = 0
    /\ ppc = "idle"
    /\ pending = NoData
    /\ t_clean = 0
    /\ now = 0
    /\ inbox = <<>>
    /\ h = HInit
    /\ gen = NoGen
    /\ scans = NoScans
    /\ pacer = NoPacer
    /\ client = NoClient
    /\ writer = NoWriter

(***************************************************************************)
(* Streamer.__init__                                                       *)
(***************************************************************************)
\* mutant: the role is compared as it was passed
_parse_sock_type_CaseSensitive(sock) ==
    IF sock \in {"PUSH", "REP", "PUB"}
    THEN [ok |-> TRUE, value |-> sock]
    ELSE [ok |-> FALSE,
          value |-> [text |-> "Unsupported ZMQ socket type", value |-> sock]]

\* streamer.py:105-113: the role, or the ValueError raised; its message
\* carries the argument after upper()
_parse_sock_type(sock) ==
    IF Upper(sock) \in {"PUSH", "REP", "PUB"}
    THEN [ok |-> TRUE, value |-> Upper(sock)]
    ELSE [ok |-> FALSE,
          value |-> [text |-> "Unsupported ZMQ socket type",
                     value |-> Upper(sock)]]

\* streamer.py:115-119: the protocol, or the ValueError raised; its message
\* carries the argument after lower()
_parse_protocol(protocol) ==
    IF Lower(protocol) \in {"tcp", "ipc"}
    THEN [ok |-> TRUE, value |-> Lower(protocol)]
    ELSE [ok |-> FALSE,
          value |-> [text |-> "Unsupported ZMQ transport protocol",
                     value |-> Lower(protocol)]]

\* __init__ raises: no attribute after the failing line is set
ConstructFails(args, exc) ==
    /\ obj' = "failed"
    /\ error' = exc
    /\ h' = [h EXCEPT !.sock_arg = args.sock, !.protocol_arg = args.protocol]
    /\ UNCHANGED <<aside, cfg, streamer, worker, producer, now, inbox>>

\* streamer.py:74-103.  create_serializer is foamclient's: whether it accepts
\* (name, schema, multipart) is not decided by this repository, so a named
\* serializer may be returned or refused; a callable is used as it is.
Construct(args, serializer_ok) ==
    /\ obj = "none"
    /\ LET s == _parse_sock_type(args.sock)
           p == _parse_protocol(args.protocol)
       IN  IF ~s.ok THEN ConstructFails(args, s.value)
           ELSE IF ~p.ok THEN ConstructFails(args, p.value)
           ELSE IF args.serializer \notin CallableArgs /\ ~serializer_ok
                THEN ConstructFails(args, [text |-> "create_serializer",
                                           value |-> args.serializer])
           ELSE /\ obj' = "constructed"
                /\ cfg' = [sock |-> s.value, protocol |-> p.value,
                           serializer |-> args.serializer,
                           multipart |-> args.multipart,
                           early_serialization |-> args.early_serialization,
                           buffer_size |-> args.buffer_size,
                           buffer_linger |-> args.buffer_linger,
                           frequency |-> args.frequency,
                           report_every |-> args.report_every,
                           request |-> args.request]
                /\ buffer' = <<>>
                /\ thread' = "initial"
                /\ ev' = FALSE
                /\ t0' = now
                /\ records_sent' = 0
                /\ bytes_sent' = 0
                /\ h' = [h EXCEPT !.sock_arg = args.sock,
                                  !.protocol_arg = args.protocol]
                /\ UNCHANGED <<aside, error, worker, producer, now, inbox>>

(***************************************************************************)
(* The producer thread: feed, reset_counter, start, stop.                  *)
(***************************************************************************)
\* mutant: put() lets one entry more than maxsize in
QueueHasRoom_OffByOne ==
    cfg.buffer_size <= 0 \/ Len(buffer) <= cfg.buffer_size

\* queue.Queue.put (streamer.py:90, 145, 260): maxsize <= 0 is unbounded;
\* otherwise put() blocks while the queue holds maxsize entries
QueueHasRoom == cfg.buffer_size <= 0 \/ Len(buffer) < cfg.buffer_size

QueuePut ==
    /\ QueueHasRoom
    /\ buffer' = Append(buffer, [pending EXCEPT !.ord = h.enq + 1])
    /\ pending' = NoData

\* streamer.py:135-145, up to the call of put()
FeedCallUpTo(eq, n) ==
    /\ obj = "constructed"
    /\ ppc = "idle"
    /\ Len(h.fed) + h.user_resets < n
    /\ LET record == [Record(Len(h.fed) + 1, eq) EXCEPT !.epoch = h.resets]
       IN  /\ pending' = IF cfg.early_serialization THEN _pack(record)
                         ELSE record
           /\ h' = [h EXCEPT !.fed = Append(@, record),
                             !.fed_epoch = @ + 1,
                             !.t_feed_first = IF cfg.frequency > 0
                                                 /\ h.fed = <<>>
                                              THEN now ELSE @,
                             !.call_full = ~QueueHasRoom,
                             !.call_deq = h.deq]
    /\ ppc' = "feed_put"
    /\ UNCHANGED <<aside, obj, error, cfg, streamer, worker, t_clean, now, inbox>>

FeedCall(eq) == FeedCallUpTo(eq, MaxCalls)

\* streamer.py:145, put() returning
FeedPut ==
    /\ ppc = "feed_put"
    /\ QueuePut
    /\ ppc' = "idle"
    /\ h' = [h EXCEPT !.enq = @ + 1, !.call_full = FALSE, !.call_deq = 0,
                      !.t_feed_last = IF cfg.frequency > 0 THEN now ELSE @]
    /\ UNCHANGED <<aside, obj, error, cfg, ev, thread, records_sent, bytes_sent, t0,
                   worker, t_clean, now, inbox>>

\* mutant: reset_counter() serializes the sentinel as feed() does a record
ResetCounterCall_Packs ==
    /\ obj = "constructed"
    /\ ppc = "idle"
    /\ Len(h.fed) + h.user_resets < MaxCalls
    /\ LET entry == [_reset_counter_sentinel EXCEPT !.epoch = h.fed_epoch,
                                                    !.by = "reset_counter"]
       IN  pending' = IF cfg.early_serialization THEN _pack(entry) ELSE entry
    /\ ppc' = "reset_put"
    /\ h' = [h EXCEPT !.resets = @ + 1, !.user_resets = @ + 1,
                      !.fed_epoch = 0]
    /\ UNCHANGED <<aside, obj, error, cfg, streamer, worker, t_clean, now, inbox>>

\* streamer.py:259-260, up to the call of put()
ResetCounterCall ==
    /\ obj = "constructed"
    /\ ppc = "idle"
    /\ Len(h.fed) + h.user_resets < MaxCalls
    /\ pending' = [_reset_counter_sentinel EXCEPT !.epoch = h.fed_epoch,
                                                  !.by = "reset_counter"]
    /\ ppc' = "reset_put"
    /\ h' = [h EXCEPT !.resets = @ + 1, !.user_resets = @ + 1,
                      !.fed_epoch = 0]
    /\ UNCHANGED <<aside, obj, error, cfg, streamer, worker, t_clean, now, inbox>>

\* streamer.py:260, put() returning
ResetCounterPut ==
    /\ ppc = "reset_put"
    /\ QueuePut
    /\ ppc' = "idle"
    /\ h' = [h EXCEPT !.enq = @ + 1]
    /\ UNCHANGED <<aside, obj, error, cfg, ev, thread, records_sent, bytes_sent, t0,
                   worker, t_clean, now, inbox>>

\* streamer.py:147-148: start() calls reset_counter()
StartCall ==
    /\ obj = "constructed"
    /\ ppc = "idle"
    /\ thread = "initial"
    /\ pending' = [_reset_counter_sentinel EXCEPT !.epoch = h.fed_epoch,
                                                  !.by = "start"]
    /\ ppc' = "start_put"
    /\ h' = [h EXCEPT !.resets = @ + 1, !.fed_epoch = 0,
                      !.fed_before_start = Len(h.fed)]
    /\ UNCHANGED <<aside, obj, error, cfg, streamer, worker, t_clean, now, inbox>>

\* streamer.py:148-149: the put() of start()'s reset_counter() returns and
\* the thread is started
StartThread ==
    /\ ppc = "start_put"
    /\ QueuePut
    /\ thread' = "started"
    /\ pc' = "init"
    /\ ppc' = "idle"
    /\ h' = [h EXCEPT !.enq = @ + 1]
    /\ UNCHANGED <<aside, obj, error, cfg, ev, records_sent, bytes_sent, t0, ctx,
                   rep_ready, t_sent, data, wake, t_clean, now, inbox>>

\* streamer.py:228-229, 233-238: stop() enters __clean_up
StopCall ==
    /\ obj = "constructed"
    /\ ppc = "idle"
    /\ thread = "started"
    /\ ppc' = "clean_up"
    /\ t_clean' = IF cfg.buffer_linger >= 0 THEN now ELSE t_clean
    /\ h' = [h EXCEPT !.enq_at_stop = h.enq]
    /\ UNCHANGED <<aside, obj, error, cfg, streamer, worker, pending, now, inbox>>

\* mutant: __clean_up waits for the queue to empty whatever the linger
CleanUpWaitOver_Unbounded == buffer = <<>>

\* streamer.py:233-243: __clean_up leaves its loop: the queue is empty, or
\* (buffer_linger >= 0) the linger period, in milliseconds, has elapsed
CleanUpWaitOver ==
    \/ buffer = <<>>
    \/ cfg.buffer_linger >= 0
         /\ ~((now - t_clean) * 1000 < cfg.buffer_linger)

CleanUp ==
    /\ ppc = "clean_up"
    /\ CleanUpWaitOver
    /\ ppc' = "set_ev"
    /\ UNCHANGED <<aside, obj, error, cfg, streamer, worker, pending, t_clean, now,
                   inbox, h>>

\* streamer.py:230
SetEv ==
    /\ ppc = "set_ev"
    /\ ev' = TRUE
    /\ ppc' = "join"
    /\ h' = [h EXCEPT !.deq_at_flag = h.deq]
    /\ UNCHANGED <<aside, obj, error, cfg, buffer, thread, records_sent, bytes_sent,
                   t0, worker, pending, t_clean, now, inbox>>

\* streamer.py:231: join() returns once the thread has ended
Join ==
    /\ ppc = "join"
    /\ pc \in {"exited", "dead"}
    /\ ppc' = "stopped"
    /\ UNCHANGED <<aside, obj, error, cfg, streamer, worker, pending, t_clean, now,
                   inbox, h>>

(***************************************************************************)
(* The worker thread: Streamer._run and what it calls.                     *)
(***************************************************************************)
\* streamer.py:183  deque(maxlen=max(10, int(self._frequency) + 1))
WindowMaxlen == WindowMaxlenOf([num |-> cfg.frequency, den |-> 1])

DequeAppend(q, x) == DequeAppendTo(q, x, WindowMaxlen)

\* streamer.py:176-187: _init() binds the socket, then the locals are set
ThreadInit ==
    /\ pc = "init"
    /\ ctx' = "open"
    /\ rep_ready' = FALSE
    /\ t_sent' = IF cfg.frequency > 0 THEN <<t0>> ELSE <<>>
    /\ pc' = "top"
    /\ UNCHANGED <<aside, obj, error, cfg, streamer, data, wake, producer, now,
                   inbox, h>>

\* streamer.py:176, 121-131: socket.bind() raises zmq.ZMQError (the address
\* is in use, the ipc path cannot be created): the exception ends the
\* thread, with the context of _init created and never destroyed
ThreadInitFails ==
    /\ pc = "init"
    /\ ctx' = "open"
    /\ pc' = "dead"
    /\ h' = [h EXCEPT !.halt = "bind"]
    /\ UNCHANGED <<aside, obj, error, cfg, streamer, rep_ready, t_sent, data, wake,
                   producer, now, inbox>>

\* mutant: the flag also interrupts the processing of an entry
LoopExit_Preemptive ==
    /\ pc \in {"top", "process"}
    /\ ev
    /\ ctx' = "destroyed"
    /\ pc' = "exited"
    /\ h' = [h EXCEPT !.timeout = ""]
    /\ UNCHANGED <<aside, obj, error, cfg, streamer, rep_ready, t_sent, data, wake,
                   producer, now, inbox>>

\* streamer.py:189, 226: the loop condition fails, ctx.destroy(), the thread
\* ends
LoopExit ==
    /\ pc = "top"
    /\ ev
    /\ ctx' = "destroyed"
    /\ pc' = "exited"
    /\ h' = [h EXCEPT !.timeout = ""]
    /\ UNCHANGED <<aside, obj, error, cfg, streamer, rep_ready, t_sent, data, wake,
                   producer, now, inbox>>

\* mutant: the loop goes on to the queue without a request
LoopEnter_NoGate ==
    /\ pc = "top"
    /\ ~ev
    /\ pc' = "get"
    /\ h' = [h EXCEPT !.timeout = ""]
    /\ UNCHANGED <<aside, obj, error, cfg, streamer, ctx, rep_ready, t_sent, data,
                   wake, producer, now, inbox>>

\* streamer.py:189-190: the loop condition holds; the REP gate is examined
LoopEnter ==
    /\ pc = "top"
    /\ ~ev
    /\ pc' = IF cfg.sock = "REP" /\ ~rep_ready THEN "recv" ELSE "get"
    /\ h' = [h EXCEPT !.timeout = ""]
    /\ UNCHANGED <<aside, obj, error, cfg, streamer, ctx, rep_ready, t_sent, data,
                   wake, producer, now, inbox>>

\* mutant: any request is served
RecvRequest_Lenient ==
    /\ pc = "recv"
    /\ inbox # <<>>
    /\ inbox' = Tail(inbox)
    /\ rep_ready' = TRUE
    /\ pc' = "get"
    /\ h' = [h EXCEPT !.granted = @ + 1]
    /\ UNCHANGED <<aside, obj, error, cfg, streamer, ctx, t_sent, data, wake,
                   producer, now>>

\* streamer.py:192-196: socket.recv() returns a request; the assert passes
\* or raises AssertionError, which ends the thread
RecvRequest ==
    /\ pc = "recv"
    /\ inbox # <<>>
    /\ inbox' = Tail(inbox)
    /\ IF Head(inbox) = cfg.request
       THEN /\ rep_ready' = TRUE
            /\ pc' = "get"
            /\ h' = [h EXCEPT !.granted = @ + 1]
       ELSE /\ pc' = "dead"
            /\ h' = [h EXCEPT !.halt = "request"]
            /\ UNCHANGED rep_ready
    /\ UNCHANGED <<aside, obj, error, cfg, streamer, ctx, t_sent, data, wake,
                   producer, now>>

\* streamer.py:197-198: zmq.error.Again after recv_timeout, continue
RecvAgain ==
    /\ pc = "recv"
    /\ inbox = <<>>
    /\ pc' = "top"
    /\ h' = [h EXCEPT !.timeout = "recv"]
    /\ UNCHANGED <<aside, obj, error, cfg, streamer, ctx, rep_ready, t_sent, data,
                   wake, producer, now, inbox>>

\* streamer.py:203: self._buffer.get(timeout=0.1) returns an entry
BufferGet ==
    /\ pc = "get"
    /\ buffer # <<>>
    /\ data' = Head(buffer)
    /\ buffer' = Tail(buffer)
    /\ pc' = "process"
    /\ h' = [h EXCEPT !.deq = @ + 1]
    /\ UNCHANGED <<aside, obj, error, cfg, ev, thread, records_sent, bytes_sent, t0,
                   ctx, rep_ready, t_sent, wake, producer, now, inbox>>

\* mutant: the poll timeout ends the loop
BufferEmpty_Fatal ==
    /\ pc = "get"
    /\ buffer = <<>>
    /\ pc' = "dead"
    /\ h' = [h EXCEPT !.timeout = "poll"]
    /\ UNCHANGED <<aside, obj, error, cfg, streamer, ctx, rep_ready, t_sent, data,
                   wake, producer, now, inbox>>

\* streamer.py:203, 223-224: queue.Empty after the timeout, continue
BufferEmpty ==
    /\ pc = "get"
    /\ buffer = <<>>
    /\ pc' = "top"
    /\ h' = [h EXCEPT !.timeout = "poll"]
    /\ UNCHANGED <<aside, obj, error, cfg, streamer, ctx, rep_ready, t_sent, data,
                   wake, producer, now, inbox>>

\* mutant: the report is due one record late
ReportDue_OffByOne(n) ==
    cfg.report_every > 0 /\ n % cfg.report_every = 1

\* streamer.py:172  the condition under which _send() calls _report()
ReportDue(n) == cfg.report_every > 0 /\ n % cfg.report_every = 0

\* streamer.py:204  whether the entry taken from the queue resets the counter
IsResetEntry(entry) == PyEq(entry, _reset_counter_sentinel)

\* mutant: __reset_counter() reports whatever records_sent is
ProcessReset_AlwaysReports ==
    /\ pc = "process"
    /\ PyEq(data, _reset_counter_sentinel)
    /\ records_sent' = 0
    /\ bytes_sent' = 0
    /\ t0' = now
    /\ t_sent' = <<>>
    /\ data' = NoData
    /\ pc' = "top"
    /\ h' = [h EXCEPT !.reports = @ + 1,
                      !.reset_reports = @ + 1,
                      !.send_reports = 0,
                      !.sends_mark = h.sends,
                      !.frames_mark = Len(h.wire),
                      !.applied = @ + 1,
                      !.sentinels = IF data.tag = "sentinel" THEN @ + 1
                                    ELSE @,
                      !.start_applied = @ \/ data.by = "start",
                      !.done = @ + 1]
    /\ UNCHANGED <<aside, obj, error, cfg, buffer, ev, thread, ctx, rep_ready, wake,
                   producer, now, inbox>>

\* streamer.py:252-257 and 204-208: __reset_counter(), t_sent.clear()
ProcessReset ==
    /\ pc = "process"
    /\ IsResetEntry(data)
    /\ records_sent' = 0
    /\ bytes_sent' = 0
    /\ t0' = now
    /\ t_sent' = <<>>
    /\ data' = NoData
    /\ pc' = "top"
    /\ h' = [h EXCEPT !.reports = IF records_sent > 0 THEN @ + 1 ELSE @,
                      !.reset_reports = IF records_sent > 0 THEN @ + 1 ELSE @,
                      !.send_reports = 0,
                      !.sends_mark = h.sends,
                      !.frames_mark = Len(h.wire),
                      !.applied = @ + 1,
                      !.sentinels = IF data.tag = "sentinel" THEN @ + 1
                                    ELSE @,
                      !.start_applied = @ \/ data.by = "start",
                      !.done = @ + 1]
    /\ UNCHANGED <<aside, obj, error, cfg, buffer, ev, thread, ctx, rep_ready, wake,
                   producer, now, inbox>>

\* streamer.py:210-211  the payload _send() is called with
Payload(entry) == IF cfg.early_serialization THEN entry ELSE _pack(entry)

\* streamer.py:160-169  the frames of one payload with their SNDMORE flags
Frames(payload) ==
    LET n == NumItems(payload, cfg.multipart, cfg.serializer)
    IN  [i \in 1..n |->
            [id |-> payload.id, ser |-> payload.ser, part |-> i,
             more |-> cfg.multipart /\ i # n]]

RECURSIVE SumSizes(_)
SumSizes(frames) ==
    IF frames = <<>> THEN 0
    ELSE GetSizeOf(Head(frames)) + SumSizes(Tail(frames))

\* streamer.py:181, 186  sent_interval, in seconds (the frequencies of the
\* model divide 1 Hz)
SentInterval == IF cfg.frequency > 0 THEN 1 \div cfg.frequency ELSE 0

\* mutant: the loop never waits
PacingWait_None(window) == 0

\* streamer.py:217-222  the pacing wait after a send, with the window after
\* the append
PacingWait(window) ==
    IF cfg.frequency > 0
    THEN (Len(window) - 1) * SentInterval
            - (window[Len(window)] - window[1])
    ELSE 0

\* streamer.py:210-222: serialize, _send(), clear the REP gate, pace
ProcessSend ==
    /\ pc = "process"
    /\ ~IsResetEntry(data)
    /\ LET frames == Frames(Payload(data))
           window == IF cfg.frequency > 0 THEN DequeAppend(t_sent, now)
                     ELSE t_sent
       IN  /\ bytes_sent' = bytes_sent + SumSizes(frames)
           /\ records_sent' = records_sent + 1
           /\ h' = [h EXCEPT !.wire = @ \o frames,
                             !.sends = @ + 1,
                             !.t_first = IF cfg.frequency > 0
                                            /\ records_sent = 0
                                         THEN now ELSE @,
                             !.t_last = IF cfg.frequency > 0 THEN now
                                        ELSE @,
                             !.reports = IF ReportDue(records_sent + 1)
                                         THEN @ + 1 ELSE @,
                             !.send_reports = IF ReportDue(records_sent + 1)
                                              THEN @ + 1 ELSE @,
                             !.granted = 0,
                             !.done = @ + 1]
           /\ t_sent' = window
           /\ IF PacingWait(window) > 0
              THEN /\ pc' = "sleep"
                   /\ wake' = now + PacingWait(window)
              ELSE /\ pc' = "top"
                   /\ wake' = wake
    /\ rep_ready' = IF cfg.sock = "REP" THEN FALSE ELSE rep_ready
    /\ data' = NoData
    /\ UNCHANGED <<aside, obj, error, cfg, buffer, ev, thread, t0, ctx, producer, now,
                   inbox>>

\* streamer.py:222: time.sleep(t_wait) returns
Wake ==
    /\ pc = "sleep"
    /\ now >= wake
    /\ pc' = "top"
    /\ UNCHANGED <<aside, obj, error, cfg, streamer, ctx, rep_ready, t_sent, data,
                   wake, producer, now, inbox, h>>

(***************************************************************************)
(* The environment: REQ peers and the clock.                               *)
(***************************************************************************)
\* what REQ peers send: the default token of streamer.py:32, and the empty
\* request of ZmqClient.next (client.py:47)
RequestTokens == {"READY", ""}

\* a REQ peer sends a request to the REP socket
PeerRequest(token) ==
    /\ cfg.sock = "REP"
    /\ thread = "started"
    /\ h.requests < MaxRequests
    /\ inbox' = Append(inbox, token)
    /\ h' = [h EXCEPT !.requests = @ + 1]
    /\ UNCHANGED <<aside, obj, error, cfg, streamer, worker, producer, now>>

\* time.monotonic() advances
Tick ==
    /\ obj = "constructed"
    /\ now < MaxTime
    /\ now' = now + 1
    /\ UNCHANGED <<aside, obj, error, cfg, streamer, worker, producer, inbox, h>>

Next ==
    \/ \E args \in CtorArgs, ok \in BOOLEAN : Construct(args, ok)
    \/ \E eq \in BOOLEAN : FeedCall(eq)
    \/ FeedPut
    \/ ResetCounterCall
    \/ ResetCounterPut
    \/ StartCall
    \/ StartThread
    \/ StopCall
    \/ CleanUp
    \/ SetEv
    \/ Join
    \/ ThreadInit
    \/ ThreadInitFails
    \/ LoopExit
    \/ LoopEnter
    \/ RecvRequest
    \/ RecvAgain
    \/ BufferGet
    \/ BufferEmpty
    \/ ProcessReset
    \/ ProcessSend
    \/ Wake
    \/ \E token \in RequestTokens : PeerRequest(token)
    \/ Tick

Spec == Init /\ [][Next]_vars

(***************************************************************************)
(* A paced Streamer with the smallest queue, fed by a producer that makes  *)
(* MaxPacedFeeds calls of feed() and none of reset_counter().              *)
(***************************************************************************)
PacedArgs == [DefaultArgs EXCEPT !.frequency = 1, !.buffer_size = 1]

NextPaced ==
    \/ Construct(PacedArgs, TRUE)
    \/ FeedCallUpTo(FALSE, MaxPacedFeeds)
    \/ FeedPut
    \/ StartCall
    \/ StartThread
    \/ StopCall
    \/ CleanUp
    \/ SetEv
    \/ Join
    \/ ThreadInit
    \/ LoopExit
    \/ LoopEnter
    \/ BufferGet
    \/ BufferEmpty
    \/ ProcessReset
    \/ ProcessSend
    \/ Wake
    \/ Tick

SpecPaced == Init /\ [][NextPaced]_vars

(***************************************************************************)
(* tomo/app.py: a gen_index generator driven to exhaustion.                *)
(***************************************************************************)
\* gen_index(start, end, ordered=...) is called
GenIndexCall(start, end, ordered) ==
    /\ gen.pc = "none"
    /\ gen' = [gen EXCEPT !.pc = "running", !.g = NewGen(start, end, ordered)]
    /\ UNCHANGED <<scans, pacer, client, writer, obj, error, cfg, streamer,
                   worker, producer, now, inbox, h>>

\* the caller takes the next index
GenIndexYield ==
    /\ gen.pc = "running"
    /\ \E r \in GenIndexNext(gen.g) :
        /\ r.y # Stop
        /\ gen' = [gen EXCEPT !.g = r.g,
                              !.seen = @ \cup {r.y},
                              !.twice = @ \/ r.y \in gen.seen,
                              !.n = @ + 1,
                              !.last = r.y,
                              !.increasing = @ /\ r.y > gen.last]
    /\ UNCHANGED <<scans, pacer, client, writer, obj, error, cfg, streamer,
                   worker, producer, now, inbox, h>>

\* the generator is exhausted
GenIndexStop ==
    /\ gen.pc = "running"
    /\ \E r \in GenIndexNext(gen.g) :
        /\ r.y = Stop
        /\ gen' = [gen EXCEPT !.pc = "done", !.g = r.g]
    /\ UNCHANGED <<scans, pacer, client, writer, obj, error, cfg, streamer,
                   worker, producer, now, inbox, h>>

NextGenIndex ==
    \/ \E start \in GenStarts, len \in 0..MaxRange, ordered \in BOOLEAN :
          GenIndexCall(start, start + len, ordered)
    \/ GenIndexYield
    \/ GenIndexStop

SpecGenIndex == Init /\ [][NextGenIndex]_vars

(***************************************************************************)
(* tomo/app.py: main iterating over gen_fake_data or stream_data_file.     *)
(***************************************************************************)
TomoRest ==
    <<gen, pacer, client, writer, obj, error, cfg, streamer, worker, producer,
      now, inbox, h>>

\* main creates the generator
TomoCall(args) ==
    /\ scans.pc = "none"
    /\ args.fn = "gen_fake_data" => args.starts = <<0, 0, 0>> /\ args.present = Scans
    /\ scans' = [scans EXCEPT !.pc = "scan", !.fn = args.fn,
                              !.counts = args.counts, !.starts = args.starts,
                              !.present = args.present,
                              !.ordered = args.ordered]
    /\ UNCHANGED TomoRest

\* stream_data_file: "if path not in fp: ... continue"
ScanSkip ==
    /\ scans.pc = "scan"
    /\ scans.scan \in Scans
    /\ scans.fn = "stream_data_file"
    /\ scans.scan \notin scans.present
    /\ scans' = [scans EXCEPT !.scan = @ + 1]
    /\ UNCHANGED TomoRest

\* the scan begins: the buffer is allocated (stream_data_file) and
\* gen_index is called
ScanEnter ==
    /\ scans.pc = "scan"
    /\ scans.scan \in Scans
    /\ scans.fn = "stream_data_file" => scans.scan \in scans.present
    /\ LET r == ScanRange(scans.fn, scans.counts, scans.starts, scans.scan)
       IN  scans' = [scans EXCEPT !.pc = "frames",
                                  !.g = NewGen(r.start, r.end, scans.ordered)]
    /\ UNCHANGED TomoRest

\* a frame is yielded and main handles it.  stream_data_file reads row
\* i % n_images INTO the buffer of the scan and yields that buffer.
FrameYield ==
    /\ scans.pc = "frames"
    /\ \E r \in GenIndexNext(scans.g) :
        /\ r.y # Stop
        /\ LET item == FrameItem(scans.fn, scans.scan, r.y)
           IN  scans' = [scans EXCEPT
                   !.g = r.g,
                   !.raw[scans.scan] =
                       IF scans.fn = "stream_data_file"
                       THEN r.y % NImages[scans.scan + 1] ELSE @,
                   !.out = Append(@, item),
                   !.calls = Append(@, MainLoopCall(item))]
    /\ UNCHANGED TomoRest

\* the frames of the scan are over: "if scan_index < 2: yield sentinel, None"
ScanLeave ==
    /\ scans.pc = "frames"
    /\ \E r \in GenIndexNext(scans.g) :
        /\ r.y = Stop
        /\ LET item == SentinelItem(scans.scan)
           IN  scans' = [scans EXCEPT
                   !.pc = "scan",
                   !.g = r.g,
                   !.scan = @ + 1,
                   !.out = IF scans.scan < 2 THEN Append(@, item) ELSE @,
                   !.calls = IF scans.scan < 2
                             THEN Append(@, MainLoopCall(item)) ELSE @]
    /\ UNCHANGED TomoRest

\* the generator is exhausted
ScansDone ==
    /\ scans.pc = "scan"
    /\ scans.scan \notin Scans
    /\ scans' = [scans EXCEPT !.pc = "done"]
    /\ UNCHANGED TomoRest

NextTomo ==
    \/ \E args \in TomoArgs : TomoCall(args)
    \/ ScanSkip
    \/ ScanEnter
    \/ FrameYield
    \/ ScanLeave
    \/ ScansDone

SpecTomo == Init /\ [][NextTomo]_vars

(***************************************************************************)
(* streamer.py:180-222: the pacer window of a loop that sends and resets.  *)
(***************************************************************************)
PacerRest ==
    <<gen, scans, client, writer, obj, error, cfg, streamer, worker, producer,
      now, inbox, h>>

\* streamer.py:180-187: the window is created with the epoch start time in
\* it, or is None
PacerBegin(f) ==
    /\ pacer.pc = "none"
    /\ pacer' = [pacer EXCEPT !.pc = "running",
                              !.frequency = f,
                              !.none = ~Positive(f),
                              !.t_sent = IF Positive(f) THEN <<0>> ELSE <<>>]
    /\ UNCHANGED PacerRest

\* streamer.py:217-218: after a send, "t_sent.append(time.monotonic())"
PacerSend ==
    /\ pacer.pc = "running"
    /\ pacer.clock < MaxSends
    /\ LET t == pacer.clock + 1
           maxlen == WindowMaxlenOf(pacer.frequency)
       IN  pacer' = [pacer EXCEPT
               !.clock = t,
               !.t_sent = IF pacer.none THEN @ ELSE DequeAppendTo(@, t, maxlen),
               !.evictions = IF ~pacer.none /\ Len(pacer.t_sent) >= maxlen
                             THEN @ + 1 ELSE @]
    /\ UNCHANGED PacerRest

\* streamer.py:206-207: a sentinel was dequeued, "t_sent.clear()"
PacerReset ==
    /\ pacer.pc = "running"
    /\ pacer.t_sent # <<>>
    /\ pacer' = [pacer EXCEPT !.t_sent = <<>>]
    /\ UNCHANGED PacerRest

NextPacer ==
    \/ \E f \in Frequencies : PacerBegin(f)
    \/ PacerSend
    \/ PacerReset

SpecPacer == Init /\ [][NextPacer]_vars

(***************************************************************************)
(* stop() of a PUSH or PUB Streamer, with the scheduling the code relies   *)
(* on: the sending thread keeps running, the thread that called stop()     *)
(* keeps running, and a time.sleep() in progress comes to its end.         *)
(***************************************************************************)
ShutdownArgs ==
    {[DefaultArgs EXCEPT !.sock = s, !.buffer_linger = l] :
        s \in {"PUSH", "PUB"}, l \in {-1, 0, 1000}}
    \cup {[DefaultArgs EXCEPT !.frequency = 1, !.buffer_linger = l] :
        l \in {-1, 1000}}

\* time passes while __clean_up waits for the linger period or the loop
\* sleeps for the pacing
Elapse ==
    /\ \/ /\ ppc = "clean_up"
          /\ cfg.buffer_linger >= 0
          /\ (now - t_clean) * 1000 < cfg.buffer_linger
       \/ pc = "sleep" /\ now < wake
    /\ now' = now + 1
    /\ UNCHANGED <<aside, obj, error, cfg, streamer, worker, producer, inbox, h>>

\* the steps of _run once socket.bind() has succeeded
LoopStep ==
    \/ ThreadInit
    \/ LoopExit
    \/ LoopEnter
    \/ BufferGet
    \/ BufferEmpty
    \/ ProcessReset
    \/ ProcessSend
    \/ Wake

\* the steps of stop()
StopStep == CleanUp \/ SetEv \/ Join

NextShutdown ==
    \/ \E args \in ShutdownArgs : Construct(args, TRUE)
    \/ \E eq \in BOOLEAN : FeedCall(eq)
    \/ FeedPut
    \/ ResetCounterCall
    \/ ResetCounterPut
    \/ StartCall
    \/ StartThread
    \/ StopCall
    \/ CleanUp
    \/ SetEv
    \/ Join
    \/ ThreadInit
    \/ ThreadInitFails
    \/ LoopExit
    \/ LoopEnter
    \/ BufferGet
    \/ BufferEmpty
    \/ ProcessReset
    \/ ProcessSend
    \/ Wake
    \/ Tick
    \/ Elapse

SpecShutdown ==
    /\ Init
    /\ [][NextShutdown]_vars
    /\ WF_vars(LoopStep)
    /\ WF_vars(StopStep)
    /\ WF_vars(Elapse)

(***************************************************************************)
(* stop() of a Streamer whose loop can be halted: by a request that is not *)
(* the expected one, by an exception of the serializer or of a send, or by *)
(* REQ peers that stay silent.                                             *)
(***************************************************************************)
HaltArgs ==
    {[DefaultArgs EXCEPT !.sock = s, !.buffer_linger = l] :
        s \in {"PUSH", "rEP"}, l \in {-1, 0, 1000}}

\* streamer.py:210-212: self._pack(data) or socket.send() raises; nothing in
\* _run catches it, so the exception ends the thread before ctx.destroy()
ProcessRaises ==
    /\ pc = "process"
    /\ ~IsResetEntry(data)
    /\ pc' = "dead"
    /\ data' = NoData
    /\ h' = [h EXCEPT !.halt = "send", !.timeout = ""]
    /\ UNCHANGED <<aside, obj, error, cfg, streamer, ctx, rep_ready, t_sent, wake,
                   producer, now, inbox>>

\* the steps of _run of a REP or PUSH Streamer that do not raise
HaltLoopStep ==
    \/ ThreadInit
    \/ LoopExit
    \/ LoopEnter
    \/ RecvRequest
    \/ RecvAgain
    \/ BufferGet
    \/ BufferEmpty
    \/ ProcessReset
    \/ ProcessSend

NextHalt ==
    \/ \E args \in HaltArgs : Construct(args, TRUE)
    \/ FeedCall(FALSE)
    \/ FeedPut
    \/ StartCall
    \/ StartThread
    \/ StopCall
    \/ CleanUp
    \/ SetEv
    \/ Join
    \/ ThreadInit
    \/ LoopExit
    \/ LoopEnter
    \/ RecvRequest
    \/ RecvAgain
    \/ BufferGet
    \/ BufferEmpty
    \/ ProcessReset
    \/ ProcessSend
    \/ ProcessRaises
    \/ \E token \in RequestTokens : PeerRequest(token)
    \/ Tick
    \/ Elapse

SpecHalt ==
    /\ Init
    /\ [][NextHalt]_vars
    /\ WF_vars(HaltLoopStep)
    /\ WF_vars(StopStep)
    /\ WF_vars(Elapse)

(***************************************************************************)
(* start() called again: on a Streamer that was started, or stopped.       *)
(***************************************************************************)
RestartArgs == {[DefaultArgs EXCEPT !.buffer_linger = l] : l \in {-1, 0}}

\* streamer.py:147-148: start() calls reset_counter(), whatever the state
\* of the thread
StartAgainCall ==
    /\ obj = "constructed"
    /\ ppc \in {"idle", "stopped"}
    /\ thread = "started"
    /\ h.restarts < MaxRestarts
    /\ pending' = [_reset_counter_sentinel EXCEPT !.epoch = h.fed_epoch,
                                                  !.by = "start"]
    /\ ppc' = "restart_put"
    /\ h' = [h EXCEPT !.resets = @ + 1, !.fed_epoch = 0, !.restarts = @ + 1]
    /\ UNCHANGED <<aside, obj, error, cfg, streamer, worker, t_clean, now, inbox>>

\* streamer.py:148-149: the put() returns, then Thread.start() raises
\* RuntimeError ("threads can only be started once") to the caller, who is
\* back where start() was called: before stop() or after it
StartAgainRaises ==
    /\ ppc = "restart_put"
    /\ QueuePut
    /\ ppc' = IF ev THEN "stopped" ELSE "idle"
    /\ h' = [h EXCEPT !.enq = @ + 1]
    /\ UNCHANGED <<aside, obj, error, cfg, ev, thread, records_sent, bytes_sent,
                   t0, worker, t_clean, now, inbox>>

NextRestart ==
    \/ \E args \in RestartArgs : Construct(args, TRUE)
    \/ FeedCall(FALSE)
    \/ FeedPut
    \/ StartCall
    \/ StartThread
    \/ StartAgainCall
    \/ StartAgainRaises
    \/ StopCall
    \/ CleanUp
    \/ SetEv
    \/ Join
    \/ ThreadInit
    \/ LoopExit
    \/ LoopEnter
    \/ BufferGet
    \/ BufferEmpty
    \/ ProcessReset
    \/ ProcessSend

SpecRestart == Init /\ [][NextRestart]_vars

(***************************************************************************)
(* feed() with early serialization and a serializer that can raise.        *)
(***************************************************************************)
EarlyArgs ==
    {[DefaultArgs EXCEPT !.early_serialization = TRUE, !.buffer_size = b] :
        b \in {0, 1, MaxBuffer}}

\* the object whose serialization raises: the k-th of them
BadRecord(k) == [Record(-k, FALSE) EXCEPT !.by = "feed"]

\* mutant: the object is put on the queue before the serializer is tried
FeedRaises_AfterPut ==
    /\ obj = "constructed"
    /\ ppc = "idle"
    /\ cfg.early_serialization
    /\ h.feed_errors < MaxFeedErrors
    /\ QueueHasRoom
    /\ buffer' = Append(buffer, BadRecord(h.feed_errors + 1))
    /\ h' = [h EXCEPT !.feed_errors = @ + 1,
                      !.error_after = IF @ < 0 THEN Len(h.fed) ELSE @]
    /\ UNCHANGED <<aside, obj, error, cfg, ev, thread, records_sent, bytes_sent,
                   t0, worker, producer, now, inbox>>

\* streamer.py:136-137: self._pack(data) raises in feed(); the exception
\* leaves feed() before the put() of line 145
FeedRaises ==
    /\ obj = "constructed"
    /\ ppc = "idle"
    /\ cfg.early_serialization
    /\ h.feed_errors < MaxFeedErrors
    /\ h' = [h EXCEPT !.feed_errors = @ + 1,
                      !.error_after = IF @ < 0 THEN Len(h.fed) ELSE @]
    /\ UNCHANGED <<aside, obj, error, cfg, streamer, worker, producer, now,
                   inbox>>

NextEarly ==
    \/ \E args \in EarlyArgs : Construct(args, TRUE)
    \/ \E eq \in BOOLEAN : FeedCall(eq)
    \/ FeedPut
    \/ FeedRaises
    \/ ResetCounterCall
    \/ ResetCounterPut
    \/ StartCall
    \/ StartThread
    \/ StopCall
    \/ CleanUp
    \/ SetEv
    \/ Join
    \/ ThreadInit
    \/ LoopExit
    \/ LoopEnter
    \/ BufferGet
    \/ BufferEmpty
    \/ ProcessReset
    \/ ProcessSend

SpecEarly == Init /\ [][NextEarly]_vars

(***************************************************************************)
(* client.py: calls of ZmqClient.next() against a REP peer that answers    *)
(* each request once, early or late.                                       *)
(***************************************************************************)
ClientRest == <<gen, scans, pacer, writer, streaming>>

\* client.py:19-34
ClientInit(timeout) ==
    /\ client.pc = "none"
    /\ client' = [client EXCEPT !.pc = "idle", !.timeout = timeout]
    /\ UNCHANGED ClientRest

\* client.py:46-48: next() sends a request unless one is outstanding, then
\* calls recv()
ClientNext ==
    /\ client.pc = "idle"
    /\ client.calls < MaxNext
    /\ client' = [client EXCEPT
           !.pc = "recv",
           !.calls = @ + 1,
           !.raised = FALSE,
           !.sent = IF client.recv_ready THEN @ ELSE @ + 1,
           !.at_peer = IF client.recv_ready THEN @ ELSE @ + 1,
           !.recv_ready = TRUE]
    /\ UNCHANGED ClientRest

\* client.py:50-51, 57-58: recv() returns the reply, which is unpickled
ClientRecv ==
    /\ client.pc = "recv"
    /\ client.replies # <<>>
    /\ client' = [client EXCEPT
           !.pc = "idle",
           !.replies = Tail(@),
           !.recv_ready = FALSE,
           !.returned = Append(@, Loads(Head(client.replies)))]
    /\ UNCHANGED ClientRest

\* mutant: a timeout forgets the outstanding request
ClientTimeout_Forgets ==
    /\ client.pc = "recv"
    /\ client.timeout
    /\ client.replies = <<>>
    /\ client' = [client EXCEPT !.pc = "idle", !.raised = TRUE,
                                !.timeouts = @ + 1,
                                !.recv_ready = FALSE]
    /\ UNCHANGED ClientRest

\* client.py:52-56: zmq.error.Again after RCVTIMEO, TimeoutError is raised
ClientTimeout ==
    /\ client.pc = "recv"
    /\ client.timeout
    /\ client.replies = <<>>
    /\ client' = [client EXCEPT !.pc = "idle", !.raised = TRUE,
                                !.timeouts = @ + 1]
    /\ UNCHANGED ClientRest

\* the REP peer answers the request it holds
ServerReply ==
    /\ client.at_peer > 0
    /\ client' = [client EXCEPT
           !.at_peer = @ - 1,
           !.replies = Append(@, Dumps(client.sent - client.at_peer + 1))]
    /\ UNCHANGED ClientRest

NextClient ==
    \/ \E timeout \in BOOLEAN : ClientInit(timeout)
    \/ ClientNext
    \/ ClientRecv
    \/ ClientTimeout
    \/ ServerReply

SpecClient == Init /\ [][NextClient]_vars

(***************************************************************************)
(* writer/writer.py: a Writer that is written to and then closed.          *)
(***************************************************************************)
WriterRest == <<gen, scans, pacer, client, streaming>>

\* writer.py:95-98: close()
Close(w) ==
    IF w.fp # 0
    THEN [w EXCEPT !.files[w.fp].open = FALSE, !.fp = 0]
    ELSE w

\* writer.py:64-71: _touch_next_file creates the file of the next sequence
\* number and its datasets
TouchNextFile(w) ==
    [w EXCEPT !.files = Append(@, NewFile(w.file_count,
                                          w.max_events_per_file)),
              !.fp = Len(w.files) + 1,
              !.file_count = @ + 1]

\* mutant: the file in use is not closed before the next one is created
RollOver_LeavesOpen(w) == [TouchNextFile(w) EXCEPT !.index = 0]

\* writer.py:55-57: close(), _touch_next_file(), self._index = 0
RollOver(w) == [TouchNextFile(Close(w)) EXCEPT !.index = 0]

\* writer.py:40-51
WriterInit(m) ==
    /\ writer.pc = "none"
    /\ writer' = [writer EXCEPT !.pc = "open", !.max_events_per_file = m]
    /\ UNCHANGED WriterRest

\* writer.py:53-62: write() stores the event, the k-th stored (from 0) being
\* k; with no file open and no file due, self._fp is None at line 60 and the
\* call raises TypeError before the index moves
WriterWrite ==
    /\ writer.pc = "open"
    /\ writer.events < MaxEvents
    /\ LET w == IF writer.index % writer.max_events_per_file = 0
                THEN RollOver(writer) ELSE writer
       IN  IF w.fp = 0
           THEN writer' = [writer EXCEPT !.raised = TRUE]
           ELSE writer' = [w EXCEPT
                             !.files[w.fp].rows[w.index + 1] = writer.events,
                             !.index = @ + 1,
                             !.events = @ + 1]
    /\ UNCHANGED WriterRest

\* writer.py:95-98: close() called between two writes
WriterClose ==
    /\ writer.pc = "open"
    /\ writer.fp # 0
    /\ writer' = [Close(writer) EXCEPT !.closed = TRUE]
    /\ UNCHANGED WriterRest

\* writer.py:103-104: the with block is left
WriterExit ==
    /\ writer.pc = "open"
    /\ writer' = [Close(writer) EXCEPT !.pc = "closed"]
    /\ UNCHANGED WriterRest

NextWriter ==
    \/ \E m \in 1 .. MaxPerFile : WriterInit(m)
    \/ WriterWrite
    \/ WriterClose
    \/ WriterExit

SpecWriter == Init /\ [][NextWriter]_vars

(***************************************************************************)
(* Properties.                                                             *)
(***************************************************************************)
IsPrefix(s, t) == Len(s) <= Len(t) /\ \A i \in 1..Len(s) : s[i] = t[i]

\* the frames of serialize(r1), ..., serialize(rn): every object serialized
\* exactly once
RECURSIVE SerializedFrames(_)
SerializedFrames(fed) ==
    IF fed = <<>> THEN <<>>
    ELSE LET r == Head(fed)
             n == NumItems(r, cfg.multipart, cfg.serializer)
         IN  [i \in 1..n |-> [id |-> r.id, ser |-> 1, part |-> i,
                              more |-> cfg.multipart /\ i # n]]
             \o SerializedFrames(Tail(fed))

\* C1: the payloads handed to the transport are a prefix of
\* serialize(r1), ..., serialize(rn) for the objects r1, ..., rn fed so far:
\* same order, same content, none skipped, duplicated or reordered.
C1_FifoPrefix ==
    obj = "constructed" => IsPrefix(h.wire, SerializedFrames(h.fed))

\* C2: a reset separates epochs.  A record fed after j reset_counter()
\* calls is processed when exactly j sentinels have been processed (it is
\* counted neither before nor after its epoch), and at the step that
\* processes a sentinel records_sent is the number of records fed between
\* the previous reset_counter() call (or construction) and this one.
C2_EpochSeparation ==
    /\ (pc = "process" /\ data.tag = "data") => data.epoch = h.sentinels
    /\ (pc = "process" /\ data.tag = "sentinel") => records_sent = data.epoch

\* C3: with buffer_size = B > 0 the queue never holds more than B entries,
\* and a feed() called while the queue holds B entries returns only after
\* the loop has taken an entry from the queue.
C3_Backpressure ==
    /\ [](cfg.buffer_size > 0 => Len(buffer) <= cfg.buffer_size)
    /\ [][(ppc = "feed_put" /\ ppc' = "idle" /\ h.call_full)
            => h.deq > h.call_deq]_vars

\* a feed() that found the queue full is about to return, the loop having
\* taken an entry meanwhile
C3_Witness ==
    /\ ppc = "feed_put"
    /\ h.call_full
    /\ h.deq > h.call_deq
    /\ Len(buffer) = cfg.buffer_size - 1

\* C4: in REP role receives and sends alternate, starting with a receive.
\* A record is transmitted only with exactly one matching request received
\* since the previous transmission; no entry is taken from the queue while
\* no request is pending; no request is received while one is pending; and
\* a pending request is given up only by a transmission (not by a queue
\* timeout, not by a reset sentinel).
C4_RepAlternation ==
    [][cfg.sock = "REP" =>
        /\ (h.wire' # h.wire => h.granted = 1 /\ rep_ready /\ ~rep_ready')
        /\ (h.deq' # h.deq => rep_ready)
        /\ (h.granted' > h.granted => ~rep_ready /\ h.granted = 0)
        /\ (rep_ready /\ ~rep_ready' => h.wire' # h.wire)]_vars

\* a REP streamer has answered two requests and processed a sentinel
C4_Witness ==
    /\ cfg.sock = "REP"
    /\ Len(Messages(h.wire)) >= 2
    /\ h.sentinels >= 1

\* C5: with buffer_linger < 0 the termination flag is not set while the
\* queue holds entries, and when the loop has exited every entry enqueued
\* before stop() has been taken from the queue and every record fed has been
\* transmitted.
C5_DrainOnStop ==
    cfg.buffer_linger < 0 =>
        /\ (ev => buffer = <<>>)
        /\ (pc = "exited" =>
              /\ h.done >= h.enq_at_stop
              /\ \A i \in 1..Len(h.fed) :
                    \E j \in 1..Len(h.wire) : h.wire[j].id = h.fed[i].id)

Counters == <<records_sent, bytes_sent, t0>>

\* C6: reset_counter() only appends the sentinel to the queue and leaves
\* records_sent, bytes_sent and the epoch start time as they are; the
\* counters are reset only at a step of the loop that has dequeued a sentinel
\* of reset_counter(); and that step comes when every entry enqueued before
\* the sentinel has been processed.
C6_ResetIsAsynchronous ==
    [][/\ (ppc = "idle" /\ ppc' \in {"reset_put", "start_put"})
            => UNCHANGED <<Counters, buffer>>
       /\ (ppc \in {"reset_put", "start_put"} /\ ppc' = "idle")
            => /\ UNCHANGED Counters
               /\ Len(buffer') = Len(buffer) + 1
               /\ SubSeq(buffer', 1, Len(buffer)) = buffer
               /\ buffer'[Len(buffer')].tag = "sentinel"
       /\ (obj = "constructed" /\ Counters' # Counters)
            => pc = "process" /\ pc' # "process"
       /\ (h.applied' # h.applied)
            => pc = "process" /\ data.tag = "sentinel"
       /\ (pc = "process" /\ data.tag = "sentinel" /\ pc' # "process")
            => /\ h.done = data.ord - 1
               /\ records_sent' = 0 /\ bytes_sent' = 0 /\ t0' = now]_vars

\* C7: the reset requested by start() is applied before the loop transmits
\* any record.
C7_StartResetsFirst == h.wire # <<>> => h.start_applied

\* number of records _send() was called with since the last execution of
\* __reset_counter()
EpochSent == h.sends - h.sends_mark

ReportsForSent(k) ==
    IF cfg.report_every > 0 THEN k \div cfg.report_every ELSE 0

EpochFrames == SubSeq(h.wire, h.frames_mark + 1, Len(h.wire))

C9_ResetReport ==
    [][(pc = "process" /\ data.tag = "sentinel" /\ pc' # "process")
        => /\ h.reports' = h.reports + (IF records_sent > 0 THEN 1 ELSE 0)
           /\ records_sent' = 0
           /\ bytes_sent' = 0
           /\ t_sent' = <<>>
           /\ (data.by = "start" /\ h.fed_before_start = 0)
                => h.reports' = h.reports]_vars

\* a paced Streamer has processed a sentinel that emitted a report
C9_Witness ==
    /\ cfg.frequency > 0
    /\ h.reset_reports >= 1
    /\ h.sentinels >= 2
    /\ records_sent = 0 /\ bytes_sent = 0 /\ t_sent = <<>>

\* C10: no Streamer is constructed with sock=REP and multipart=True.
C10_RepMultipartRejected ==
    ~(obj = "constructed" /\ cfg.sock = "REP" /\ cfg.multipart)

\* equality of the argument strings ignoring case: their common form
Fold(s) ==
    CASE s \in {"PUSH", "push"} -> "push"
      [] s \in {"PUB", "Pub"}   -> "pub"
      [] s \in {"REP", "rEP"}   -> "rep"
      [] s \in {"PULL", "pull"} -> "pull"
      [] s \in {"tcp", "TCP"}   -> "tcp"
      [] s \in {"ipc", "iPc"}   -> "ipc"
      [] s \in {"udp", "UDP"}   -> "udp"
      [] OTHER                  -> s

C12_BindFailureSurfaces ==
    ~(h.halt = "bind" /\ thread = "started" /\ ppc # "start_put")

\* C13: in REP role a request that differs from the configured token halts
\* the loop: at that step nothing is taken from the queue and nothing is
\* sent, and from then on the loop takes no entry, sends nothing and
\* receives no request.
C13_ProtocolViolationHalts ==
    [][/\ (pc = "recv" /\ pc' # "recv" /\ inbox # <<>>
              /\ Head(inbox) # cfg.request)
            => /\ pc' = "dead"
               /\ UNCHANGED <<buffer, rep_ready>>
               /\ h.wire' = h.wire /\ h.deq' = h.deq
       /\ pc = "dead"
            => /\ pc' = "dead"
               /\ h.wire' = h.wire /\ h.deq' = h.deq
               /\ h.granted' = h.granted
               /\ Len(inbox') >= Len(inbox)]_vars

\* the loop was halted by a request; a record and a later, matching request
\* wait unserved
C13_Witness ==
    /\ h.halt = "request"
    /\ pc = "dead"
    /\ \E i \in 1..Len(buffer) : buffer[i].tag = "data"
    /\ inbox # <<>> /\ Head(inbox) = cfg.request

\* C14: whenever the sending loop has stopped running (flag observed, or a
\* halt by a protocol violation), the transport context has been destroyed.
C14_ConnectionTornDown ==
    (pc \in {"exited", "dead"} /\ h.halt # "bind") => ctx = "destroyed"

\* C15: the sentinel is told from records by identity: the loop serializes
\* and transmits every value feed() was called with and performs no counter
\* reset for it; only the entries reset_counter() enqueued reset the
\* counters.
C15_SentinelByIdentity ==
    [][(pc = "process" /\ pc' # "process") =>
          IF data.tag = "sentinel"
          THEN h.applied' = h.applied + 1
          ELSE /\ h.applied' = h.applied
               /\ records_sent' = records_sent + 1
               /\ h.wire' = h.wire \o Frames(IF data.ser = 0 THEN _pack(data)
                                              ELSE data)]_vars

\* the loop is running and has processed everything the calls made so far
\* put on the queue
Quiescent ==
    /\ thread = "started" /\ h.halt = ""
    /\ ppc \in {"idle", "clean_up", "set_ev", "join", "stopped"}
    /\ buffer = <<>> /\ h.done = h.enq

\* C16: the payloads transmitted and the counters are determined by the
\* sequence of feed() and reset_counter() calls alone, whatever
\* early_serialization is: once the loop has processed everything, the wire
\* holds each fed record serialized exactly once, in order, records_sent is
\* the number of records fed since the last reset_counter() call and
\* bytes_sent the size of their frames; and a frame is never the result of
\* two serializations or of none.
C16_EarlySerializationEquivalent ==
    /\ \A i \in 1..Len(h.wire) : h.wire[i].ser = 1
    /\ Quiescent =>
          /\ h.wire = SerializedFrames(h.fed)
          /\ records_sent = h.fed_epoch
          /\ bytes_sent = SumSizes(SerializedFrames(
                 SubSeq(h.fed, Len(h.fed) - h.fed_epoch + 1, Len(h.fed))))

\* C17: with multipart a payload of n frames is transmitted as n frames in
\* payload order, frames 1..n-1 with SNDMORE and frame n without, no frame
\* of another record among them; bytes_sent grows by the sizes of the n
\* frames and records_sent by 1; and every increment of records_sent comes
\* with one complete message transmitted.
C17_MultipartFraming ==
    [][(cfg.multipart /\ records_sent' = records_sent + 1) =>
          LET n == NumItems(Payload(data), TRUE, cfg.serializer)
              sent == SubSeq(h.wire', Len(h.wire) + 1, Len(h.wire'))
          IN  /\ pc = "process"
              /\ SubSeq(h.wire', 1, Len(h.wire)) = h.wire
              /\ Len(sent) = n
              /\ \A i \in 1..n : /\ sent[i].id = data.id
                                 /\ sent[i].part = i
                                 /\ sent[i].more = (i < n)
              /\ bytes_sent' = bytes_sent + SumSizes(sent)
              /\ Len(Messages(h.wire')) = Len(Messages(h.wire)) + 1]_vars

\* C18: the termination flag is examined only at the top of an iteration:
\* the loop exits only from there and only with the flag set; an entry
\* taken from the queue is always processed (the record sent or the
\* sentinel applied), flag set or not; with the flag set no iteration is
\* started, so at most one entry is taken from the queue after the flag was
\* set, and when the loop has exited every entry taken has been processed.
C18_CooperativeCancel ==
    /\ [][/\ (pc' = "exited" /\ pc # "exited") => (pc = "top" /\ ev)
          /\ (pc = "process" /\ pc' # "process")
                => /\ h.done' = h.done + 1
                   /\ h.sends' = h.sends + 1 \/ h.applied' = h.applied + 1
          /\ (pc = "top" /\ ev) => pc' \in {"top", "exited"}]_vars
    /\ [](ev => h.deq <= h.deq_at_flag + 1)
    /\ [](pc = "exited" => h.done = h.deq)

\* an entry was taken from the queue after the flag was set, was processed,
\* and the loop has exited
C18_Witness ==
    /\ ev
    /\ h.deq = h.deq_at_flag + 1
    /\ h.done = h.deq
    /\ pc = "exited"

\* C19: with buffer_linger >= 0, __clean_up leaves entries in the queue
\* only when the linger period has elapsed since stop() was called, and it
\* is never held up once that period has elapsed (with buffer_linger = 0 it
\* is not held up at all), so the flag is set with entries still queued; and
\* once the loop has observed the flag nothing more is taken from the queue
\* or transmitted.
C19_BoundedLinger ==
    /\ [][(ppc = "clean_up" /\ ppc' = "set_ev" /\ buffer # <<>>)
            => /\ cfg.buffer_linger >= 0
               /\ (now - t_clean) * 1000 >= cfg.buffer_linger]_vars
    /\ []((ppc = "clean_up" /\ cfg.buffer_linger >= 0
             /\ (now - t_clean) * 1000 >= cfg.buffer_linger)
            => ENABLED CleanUp)
    /\ [][pc = "exited"
            => /\ buffer' = buffer \/ Len(buffer') > Len(buffer)
               /\ h.wire' = h.wire /\ h.deq' = h.deq]_vars

\* the linger period of 1000 ms has elapsed, the flag was set with a record
\* still queued and the loop has exited without sending it
C19_Witness ==
    /\ cfg.buffer_linger = 1000
    /\ pc = "exited"
    /\ now - t_clean >= 1
    /\ \E i \in 1..Len(buffer) : buffer[i].tag = "data"

\* C20: with frequency F > 0, once the pacing step that follows a send is
\* over, the time elapsed since the oldest timestamp of the window is at
\* least (window_len - 1) / F; within an epoch the n-th send comes no
\* earlier than (n - 1) / F after the first; and with frequency <= 0 the
\* loop never sleeps for pacing.
C20_PacingBound ==
    /\ []((cfg.frequency > 0 /\ pc \notin {"sleep", "unstarted", "init"}
             /\ t_sent # <<>>)
            => now - t_sent[1] >= (Len(t_sent) - 1) * SentInterval)
    /\ []((cfg.frequency > 0 /\ records_sent >= 1)
            => h.t_last - h.t_first >= (records_sent - 1) * SentInterval)
    /\ [](cfg.frequency <= 0 => pc # "sleep")

C22_GenIndexPermutation ==
    /\ ~gen.twice
    /\ gen.seen \subseteq gen.g.start .. (gen.g.end - 1)
    /\ gen.n = Cardinality(gen.seen)
    /\ gen.g.ordered => gen.increasing
    /\ gen.pc = "done" => gen.seen = gen.g.start .. (gen.g.end - 1)

\* an unordered range longer than the window was exhausted, out of order
C22_Witness ==
    /\ gen.pc = "done"
    /\ ~gen.g.ordered
    /\ gen.g.end - gen.g.start > ProbLen
    /\ ~gen.increasing
    /\ gen.n = gen.g.end - gen.g.start

\* the positions of the stream, and what is found there
IsSentinel(k) == scans.out[k].tag = "sentinel"
FramesOf(s) ==
    {k \in DOMAIN scans.out : ~IsSentinel(k) /\ scans.out[k].scan = s}
SentinelsAfter(s) ==
    {k \in DOMAIN scans.out : IsSentinel(k) /\ scans.out[k].after = s}

\* the scans in order, each sentinel right after the items of its scan,
\* and the loop of main calling reset_counter() for the sentinels only
ScanOrder ==
    /\ \A k, l \in DOMAIN scans.out :
          (k < l /\ ~IsSentinel(k) /\ ~IsSentinel(l))
            => scans.out[k].scan <= scans.out[l].scan
    /\ \A k \in DOMAIN scans.out : IsSentinel(k) =>
          /\ scans.out[k].after \in {0, 1}
          /\ \A l \in DOMAIN scans.out : ~IsSentinel(l) =>
                (l < k <=> scans.out[l].scan <= scans.out[k].after)
    /\ \A s \in Scans : Cardinality(SentinelsAfter(s)) <= 1
    /\ Len(scans.calls) = Len(scans.out)
    /\ \A k \in DOMAIN scans.out :
          scans.calls[k] = IF IsSentinel(k) THEN "reset_counter" ELSE "feed"

\* C23, as stated: the three scans in order, one sentinel after scan 0 and
\* one after scan 1, sum(counts) + 2 items in all, and main calling
\* reset_counter() for each sentinel and feed() for every other item.
C23_StreamAsStated ==
    /\ ScanOrder
    /\ scans.pc = "done" =>
          /\ Cardinality(SentinelsAfter(0)) = 1
          /\ Cardinality(SentinelsAfter(1)) = 1
          /\ Len(scans.out)
                = scans.counts[1] + scans.counts[2] + scans.counts[3] + 2

\* the frames a scan contributes: none when stream_data_file does not find
\* its dataset, the default number when the count is 0
ScanFrames(s) ==
    IF scans.fn = "stream_data_file" /\ s \notin scans.present THEN 0
    ELSE LET r == ScanRange(scans.fn, scans.counts, scans.starts, s)
         IN  r.end - r.start

ScanSentinels(s) ==
    IF s \in {0, 1}
          /\ (scans.fn = "stream_data_file" => s \in scans.present)
    THEN 1 ELSE 0

\* C23, amended: the scans come in order and main calls reset_counter() for
\* each sentinel and feed() for every other item; a scan whose dataset
\* stream_data_file does not find contributes neither frames nor sentinel,
\* a count of 0 stands for the default number of frames, and the stream has
\* the frames of the scans plus one sentinel for each of scans 0 and 1 that
\* was streamed.
C23_Stream ==
    /\ ScanOrder
    /\ scans.pc = "done" =>
          /\ \A s \in Scans :
                /\ Cardinality(FramesOf(s)) = ScanFrames(s)
                /\ Cardinality(SentinelsAfter(s)) = ScanSentinels(s)
          /\ Len(scans.out)
                = ScanFrames(0) + ScanFrames(1) + ScanFrames(2)
                    + ScanSentinels(0) + ScanSentinels(1)

\* a data file without darks was streamed to its end: the flats, one
\* sentinel, the projections; main called reset_counter() once
C23_Witness ==
    /\ scans.pc = "done"
    /\ scans.fn = "stream_data_file"
    /\ scans.present = {1, 2}
    /\ scans.counts = <<2, 0, 3>>
    /\ Len(scans.out) = 5
    /\ scans.calls = <<"feed", "reset_counter", "feed", "feed", "feed">>

\* what the array of an item holds: the buffer of its scan holds the row
\* read last
Carried(k) == scans.raw[scans.out[k].scan]

\* C24: for each scan stream_data_file yields count frames, or n_images
\* frames when count is 0, with ids start, start+1, ... in order when
\* ordered, and the frame with id i carries dataset row i mod n_images.
C24_FramesCarryRows ==
    scans.fn = "stream_data_file" =>
        /\ \A k \in DOMAIN scans.out : ~IsSentinel(k) =>
              Carried(k) = scans.out[k].frame % NImages[scans.out[k].scan + 1]
        /\ scans.ordered =>
              \A k, l \in DOMAIN scans.out :
                  (k < l /\ ~IsSentinel(k) /\ ~IsSentinel(l)
                      /\ scans.out[k].scan = scans.out[l].scan)
                    => scans.out[k].frame < scans.out[l].frame
        /\ scans.pc = "done" =>
              \A s \in scans.present :
                  /\ Cardinality(FramesOf(s))
                        = IF scans.counts[s + 1] > 0
                          THEN scans.counts[s + 1] ELSE NImages[s + 1]
                  /\ {scans.out[k].frame : k \in FramesOf(s)}
                        = scans.starts[s + 1]
                            .. (scans.starts[s + 1] + Cardinality(FramesOf(s)) - 1)

\* C25: records_sent and bytes_sent decrease only in the step that processes
\* a reset sentinel; that step resets records_sent, bytes_sent and the epoch
\* start time together and sends nothing; and after construction the
\* counters are written by steps of the loop only, never by feed(),
\* reset_counter() or stop().
C25_CountersMonotone ==
    [][/\ (records_sent' < records_sent \/ bytes_sent' < bytes_sent)
            => /\ pc = "process" /\ data.tag = "sentinel"
               /\ records_sent' = 0 /\ bytes_sent' = 0 /\ t0' = now
               /\ h.wire' = h.wire
       /\ (obj = "constructed" /\ Counters' # Counters)
            => /\ pc = "process" /\ pc' # "process"
               /\ UNCHANGED <<ppc, pending, buffer>>]_vars

\* the bound of the specification: max(10, ceil(F) + 1)
StatedMaxlen == Max(10, CeilOf(pacer.frequency) + 1)

\* C26, as stated: with a positive frequency F the window never holds more
\* than max(10, ceil(F) + 1) timestamps and the oldest is evicted when that
\* bound would be exceeded, for integer and fractional F; with F <= 0 there
\* is no window.
C26_WindowBoundAsStated ==
    /\ [](pacer.pc = "running" =>
            /\ pacer.none <=> ~Positive(pacer.frequency)
            /\ Len(pacer.t_sent) <= StatedMaxlen)
    /\ [][(~pacer.none /\ pacer.clock' # pacer.clock) =>
            (pacer.evictions' # pacer.evictions
                <=> Len(pacer.t_sent) = StatedMaxlen)]_vars

\* C26, amended: the window never holds more than max(10, int(F) + 1)
\* timestamps, which for a fractional F above 9 is one fewer than
\* max(10, ceil(F) + 1), and the oldest timestamp is evicted by the append
\* that finds the window that long; with F <= 0 there is no window.
C26_WindowBound ==
    /\ [](pacer.pc = "running" =>
            /\ pacer.none <=> ~Positive(pacer.frequency)
            /\ pacer.none => pacer.t_sent = <<>>
            /\ Len(pacer.t_sent) <= Max(10, IntOf(pacer.frequency) + 1)
            /\ Len(pacer.t_sent) <= StatedMaxlen)
    /\ [][(~pacer.none /\ pacer.clock' # pacer.clock) =>
            /\ pacer.evictions' # pacer.evictions
                <=> Len(pacer.t_sent) = Max(10, IntOf(pacer.frequency) + 1)
            /\ pacer.evictions' # pacer.evictions
                => /\ Len(pacer.t_sent') = Len(pacer.t_sent)
                   /\ pacer.t_sent'[1] = pacer.t_sent[2]
            /\ pacer.t_sent'[Len(pacer.t_sent')] = pacer.clock']_vars

\* a window for 10.5 Hz is full with 11 timestamps and has evicted one
C26_Witness ==
    /\ pacer.frequency = [num |-> 21, den |-> 2]
    /\ Len(pacer.t_sent) = 11
    /\ pacer.evictions > 0

\* C27: a receive timeout in REP role and a queue-poll timeout leave the
\* queue, the counters and the pacer window unchanged, are not surfaced to
\* the producer, and send the loop to the top of the iteration, where the
\* termination flag is examined before anything else.
C27_TimeoutsRecovered ==
    [][/\ ((pc = "recv" /\ inbox = <<>>) \/ (pc = "get" /\ buffer = <<>>))
            /\ pc' # pc
            => /\ pc' = "top"
               /\ UNCHANGED <<buffer, Counters, t_sent, rep_ready, ev, thread,
                              ctx, error, producer, inbox>>
               /\ h.wire' = h.wire
       /\ (pc = "top" /\ pc' # "top")
            => IF ev THEN pc' = "exited"
               ELSE pc' \in {"recv", "get"}]_vars

\* a queue-poll timeout has sent the loop of a REP Streamer, which holds a
\* request and has sent a record before, back to the top
C27_Witness ==
    /\ pc = "top"
    /\ h.timeout = "poll"
    /\ cfg.sock = "REP"
    /\ rep_ready
    /\ h.wire # <<>>
    /\ ~ev

\* the records whose feed() has returned, those waiting in the queue, the
\* one the loop holds between the get and the send, and those of which a
\* frame reached the transport
Accepted == Len(h.fed) - (IF ppc = "feed_put" THEN 1 ELSE 0)
Queued == Len(SelectSeq(buffer, LAMBDA e : e.tag = "data"))
InHand == IF pc = "process" /\ data.tag = "data" THEN 1 ELSE 0
Transmitted == Cardinality({h.wire[k].id : k \in DOMAIN h.wire})

\* C28: the records accepted by feed() are those in the queue, plus the one
\* dequeued and not yet sent, plus those transmitted; no record is
\* transmitted twice and none disappears without being transmitted.
C28_Conservation ==
    obj = "constructed" =>
        /\ Accepted = Queued + InHand + Transmitted
        /\ \A k, l \in DOMAIN h.wire :
              (h.wire[k].id = h.wire[l].id /\ h.wire[k].part = h.wire[l].part)
                => k = l

\* the entries of reset_counter() and start(), wherever they are
SentinelEntries ==
    {buffer[k] : k \in DOMAIN buffer} \cup {pending, data}

\* C29: a reset sentinel is never passed to the serializer, in early or late
\* serialization mode, and the step that processes it hands nothing to the
\* transport, increments neither records_sent nor bytes_sent, leaves the
\* pending request of a REP Streamer as it is and adds no timestamp to the
\* pacer window.
C29_SentinelIsControl ==
    /\ [](\A e \in SentinelEntries : e.tag = "sentinel" => e.ser = 0)
    /\ [][(pc = "process" /\ data.tag = "sentinel" /\ pc' # "process") =>
            /\ h.wire' = h.wire
            /\ h.sends' = h.sends
            /\ records_sent' = 0 /\ bytes_sent' = 0
            /\ rep_ready' = rep_ready
            /\ t_sent' = <<>>
            /\ pc' = "top"]_vars

\* a REP Streamer that has sent a record has processed the sentinel of a
\* reset_counter() call and still holds a request
C29_Witness ==
    /\ cfg.sock = "REP"
    /\ pc = "top"
    /\ rep_ready
    /\ h.wire # <<>>
    /\ h.user_resets > 0
    /\ h.sentinels = h.resets
    /\ h.sends = h.sends_mark

\* C30: every call of stop() on a started PUSH or PUB Streamer returns, for
\* any buffer_linger and any queue content, and when it has returned the
\* sending thread has ended and the termination flag is set.
C30_StopReturns ==
    /\ (ppc = "clean_up") ~> (ppc = "stopped")
    /\ [](ppc = "stopped" => (pc \in {"exited", "dead"} /\ ev))

\* C31: stop() returns also when the entries of the queue can no longer be
\* consumed: the loop was halted by a protocol violation or by an exception
\* of the serializer or of a send, or it is a REP loop that no further
\* request reaches; this for buffer_linger < 0 as well.
C31_StopReturnsWhenHalted ==
    (ppc = "clean_up" /\ (h.halt \in {"request", "send"} \/ cfg.sock = "REP"))
        ~> (ppc = "stopped")

\* C32: at most one sending loop runs for a Streamer, and a start() that
\* cannot launch a loop (a second start(), a start() after stop()) fails
\* with the Streamer as it was: no loop or connection is created and no
\* entry is added to the queue.
C32_FailedStartChangesNothing ==
    [][(ppc = "restart_put" /\ ppc' # "restart_put") =>
          /\ UNCHANGED <<buffer, thread, ev, Counters>>
          /\ UNCHANGED <<pc, ctx>>]_vars

\* C33: start() on a constructed, not yet started Streamer returns with the
\* loop launched, whatever was fed before it (0 up to buffer_size records):
\* its put() never finds the queue full while there is no loop to make room.
C33_StartNeverBlocks ==
    (ppc = "start_put" /\ thread = "initial") => QueueHasRoom

\* C34: with early serialization a serializer failure in feed() reaches the
\* producer and leaves the queue, the counters and the loop as they are;
\* the failing record is never enqueued, and the records fed before and
\* after it are transmitted in the order fed.
C34_FeedFailureIsLocal ==
    /\ [](/\ \A k \in DOMAIN buffer : buffer[k].id >= 0
          /\ pending.id >= 0 /\ data.id >= 0
          /\ \A k \in DOMAIN h.wire : h.wire[k].id >= 0
          /\ obj = "constructed" => IsPrefix(h.wire, SerializedFrames(h.fed)))
    /\ [][h.feed_errors' # h.feed_errors =>
            /\ UNCHANGED <<buffer, Counters, ev, thread>>
            /\ UNCHANGED <<worker, producer>>
            /\ h.wire' = h.wire]_vars

\* a feed() failed after the first record; the three records fed, one
\* before the failure and two after it, were all transmitted
C34_Witness ==
    /\ cfg.early_serialization
    /\ h.error_after = 1
    /\ Len(h.fed) = 3
    /\ Len(Messages(h.wire)) = 3

\* C35: ZmqClient never sends a request while a reply is outstanding: a
\* next() that follows one ended by TimeoutError only receives; and it
\* sends one request for each reply it returns.
C35_ClientAlternation ==
    /\ [](/\ client.at_peer + Len(client.replies) <= 1
          /\ client.recv_ready <=> client.at_peer + Len(client.replies) = 1
          /\ client.sent
                = Len(client.returned) + client.at_peer + Len(client.replies)
          /\ \A k \in DOMAIN client.returned : client.returned[k] = k)
    /\ [][/\ (client.raised /\ client.calls' # client.calls)
               => client.sent' = client.sent
          /\ client.sent' # client.sent
               => /\ client.sent' = client.sent + 1
                  /\ client.sent = Len(client.returned)]_vars

\* two calls of next() ended by TimeoutError and the third returned the
\* reply to the one request that was sent
C35_Witness ==
    /\ client.calls = 3
    /\ client.timeouts = 2
    /\ client.sent = 1
    /\ client.returned = <<1>>


(***************************************************************************)
(* C36: over a sequence of write() calls with max_events_per_file = M > 0, *)
(* the k-th event is stored at row k mod M of the file with sequence       *)
(* number floor(k / M); each file receives at most M events; at most one   *)
(* file is open at a time, the previous one being closed before the next   *)
(* is created; no event is written to a closed file; file sequence numbers *)
(* increase by 1 from 0.                                                   *)
(***************************************************************************)
C36_FileRollover ==
    /\ [](writer.pc # "none" =>
            LET M == writer.max_events_per_file
            IN  /\ \A k \in 0 .. writer.events - 1 :
                      /\ (k \div M) + 1 \in DOMAIN writer.files
                      /\ writer.files[(k \div M) + 1].seq = k \div M
                      /\ writer.files[(k \div M) + 1].rows[(k % M) + 1] = k
                /\ \A i \in DOMAIN writer.files :
                      /\ writer.files[i].seq = i - 1
                      /\ Cardinality({r \in 1 .. M :
                                        writer.files[i].rows[r] # -1}) <= M
                      /\ \A r \in 1 .. M :
                            writer.files[i].rows[r] # -1
                            => writer.files[i].rows[r] = (i - 1) * M + r - 1
                      /\ writer.files[i].open => i = writer.fp
                /\ writer.file_count = Len(writer.files)
                /\ (~writer.closed) => ~writer.raised)
    /\ [][\A i \in DOMAIN writer.files :
              (i \in DOMAIN writer'.files
                 /\ writer'.files[i].rows # writer.files[i].rows)
              => (writer.files[i].open /\ writer'.files[i].open)]_vars

C36_Witness ==
    /\ writer.pc = "open"
    /\ writer.max_events_per_file = 2
    /\ writer.events = 5
    /\ ~writer.closed
    /\ Len(writer.files) = 3
    /\ ~writer.files[1].open
    /\ ~writer.files[2].open
    /\ writer.files[3].open
    /\ writer.files[3].rows = <<4, -1>>

=============================================================================
